---- MODULE Spec2Model ----
(***************************************************************************)
(* CareVerify claim trust-scoring pipeline.                                *)
(*                                                                         *)
(* The specifications of this module:                                      *)
(*   SpecDecision  the pure decision functions of revalidate_claim         *)
(*   Spec          the claim workflow: revalidate_claim, analyze_claim_    *)
(*                 async, submit_claim and the data store                  *)
(*   SpecExhaust   one dispatch of analyze_claim_async and its retries     *)
(*   SpecEngine    first use of the scoring engine by concurrent callers   *)
(*   SpecRetry     the retry policy of the three Celery scoring tasks      *)
(*   SpecScore     the adapters and the trust score of one analyze call    *)
(*   SpecEnsemble  trust score and confidence on pairs of score sets       *)
(*   SpecRisk      the risk-factor list of one analyze call                *)
(*   SpecFeatures  two build_features calls on the same inputs             *)
(*   SpecPartial   build_features on claim records with partial data       *)
(* Trust scores are integers in hundredths of a point (85.00 = 8500).      *)
(***************************************************************************)
EXTENDS Integers, Sequences, FiniteSets, TLC

VARIABLES
    dec,            \* SpecDecision: [pc, status, trust, text, out, facts]
    claim,          \* Spec: the claim's row in table "claims"
    hasDocs,        \* Spec: table "claim_documents" holds a row of the claim
    ai_results,     \* Spec: table "ai_results", in insertion order
    queue,          \* Spec: scheduled analyze_claim_async messages (retries)
    reval,          \* Spec: the revalidate_claim invocation in progress,
                    \*   effects: what it has written or sent so far
    task,           \* Spec: the analyze_claim_async attempt in progress
    budget,         \* Spec: runs that may still start
    hist,           \* Spec: observations (history variable)
    engine_instance,\* SpecEngine: module global _engine_instance
    engines,        \* SpecEngine: the EnsembleIntelligenceEngine objects
    thr,            \* SpecEngine: the calling threads
    env,            \* SpecEngine: which model artifacts can be loaded
    obs,            \* SpecEngine: observations (history variable)
    rt,             \* SpecRetry: per task, its Celery request state
    sc,             \* SpecScore, SpecEnsemble, SpecRisk: one scoring call
    fb              \* SpecFeatures: two build_features calls and the clock;
                    \*   SpecPartial: one build_features call

decisionVars == <<dec>>
flowVars     == <<claim, hasDocs, ai_results, queue, reval, task,
                  budget, hist>>
engineVars   == <<engine_instance, engines, thr, env, obs>>
retryVars    == <<rt>>
pureVars     == <<sc, fb>>
vars         == <<dec, claim, hasDocs, ai_results, queue, reval, task,
                  budget, hist, engine_instance, engines, thr, env,
                  obs, rt, sc, fb>>

None == "none"

(***************************************************************************)
(* EnsembleScorer: recommendation bands                                    *)
(***************************************************************************)
Recommendations ==
    {"AUTO_APPROVE", "APPROVE_WITH_REVIEW", "COMPLIANCE_REVIEW_REQUIRED",
     "HIGH_RISK_HOLD"}

determine_recommendation_exclusive_bounds(trust_score) ==
    IF trust_score > 8500 THEN "AUTO_APPROVE"
    ELSE IF trust_score > 6000 THEN "APPROVE_WITH_REVIEW"
    ELSE IF trust_score > 4000 THEN "COMPLIANCE_REVIEW_REQUIRED"
    ELSE "HIGH_RISK_HOLD"

determine_recommendation(trust_score) ==
    IF trust_score >= 8500 THEN "AUTO_APPROVE"
    ELSE IF trust_score >= 6000 THEN "APPROVE_WITH_REVIEW"
    ELSE IF trust_score >= 4000 THEN "COMPLIANCE_REVIEW_REQUIRED"
    ELSE "HIGH_RISK_HOLD"

(***************************************************************************)
(* FactExtractor.  A document text is abstracted to what the extractor's   *)
(* patterns find in it: the ICD-like codes, the 5-digit codes, the         *)
(* physician identifiers and the authorization indicators.                 *)
(***************************************************************************)
IcdCodes  == {"E11.9"}
CptCodes  == {"99213"}
PhysIds   == {"NPI:1234567890"}
AuthKinds == {"PRIOR_AUTH_DECLARED", "AUTH_REFERENCE_PRESENT"}

EmptyText == [empty |-> TRUE, icd |-> {}, cpt |-> {}, phys |-> {}, auth |-> {}]

Texts ==
    {EmptyText} \cup
    [empty : {FALSE}, icd : SUBSET IcdCodes, cpt : SUBSET CptCodes,
     phys : SUBSET PhysIds, auth : SUBSET AuthKinds]

build_policy_and_risk_signals_any_missing_code(diagnosis_codes, procedure_codes, physician_identifiers, authorization_indicators) ==
    LET p1 == IF diagnosis_codes # {} /\ procedure_codes # {}
              THEN {"DIAGNOSIS_PROCEDURE_LINKED"} ELSE {}
        r1 == IF diagnosis_codes # {} /\ procedure_codes # {}
              THEN {} ELSE {"DIAGNOSIS_PROCEDURE_MISMATCH"}
        p2 == IF authorization_indicators # {}
              THEN {"PRIOR_AUTH_MATCHED"} ELSE {}
        r2 == IF authorization_indicators # {}
              THEN {} ELSE {"MISSING_AUTHORIZATION"}
        p3 == IF physician_identifiers # {}
              THEN {"PROVIDER_IDENTIFIER_PRESENT"} ELSE {}
        r3 == IF physician_identifiers # {}
              THEN {} ELSE {"MISSING_PROVIDER_IDENTIFIER"}
        r4 == IF diagnosis_codes = {} \/ procedure_codes = {}
              THEN {"NO_BILLABLE_CODE_EXTRACTED"} ELSE {}
        policies == p1 \cup p2 \cup p3
    IN  [policies |-> policies,
         risks |-> r1 \cup r2 \cup r3 \cup r4,
         is_consistent |->
             /\ "DIAGNOSIS_PROCEDURE_LINKED" \in policies
             /\ "PRIOR_AUTH_MATCHED" \in policies
             /\ "PROVIDER_IDENTIFIER_PRESENT" \in policies]

build_policy_and_risk_signals(diagnosis_codes, procedure_codes, physician_identifiers, authorization_indicators) ==
    LET p1 == IF diagnosis_codes # {} /\ procedure_codes # {}
              THEN {"DIAGNOSIS_PROCEDURE_LINKED"} ELSE {}
        r1 == IF diagnosis_codes # {} /\ procedure_codes # {}
              THEN {} ELSE {"DIAGNOSIS_PROCEDURE_MISMATCH"}
        p2 == IF authorization_indicators # {}
              THEN {"PRIOR_AUTH_MATCHED"} ELSE {}
        r2 == IF authorization_indicators # {}
              THEN {} ELSE {"MISSING_AUTHORIZATION"}
        p3 == IF physician_identifiers # {}
              THEN {"PROVIDER_IDENTIFIER_PRESENT"} ELSE {}
        r3 == IF physician_identifiers # {}
              THEN {} ELSE {"MISSING_PROVIDER_IDENTIFIER"}
        r4 == IF diagnosis_codes = {} /\ procedure_codes = {}
              THEN {"NO_BILLABLE_CODE_EXTRACTED"} ELSE {}
        policies == p1 \cup p2 \cup p3
    IN  [policies |-> policies,
         risks |-> r1 \cup r2 \cup r3 \cup r4,
         is_consistent |->
             /\ "DIAGNOSIS_PROCEDURE_LINKED" \in policies
             /\ "PRIOR_AUTH_MATCHED" \in policies
             /\ "PROVIDER_IDENTIFIER_PRESENT" \in policies]

NoFacts ==
    [diagnosis_codes |-> {}, procedure_codes |-> {},
     physician_identifiers |-> {}, authorization_indicators |-> {},
     matched_policies |-> {}, detected_risks |-> {},
     is_consistent |-> FALSE, confidence |-> 0]

extract_without_empty_guard(text) ==
    LET s == build_policy_and_risk_signals(text.icd, text.cpt,
                                           text.phys, text.auth)
    IN  [diagnosis_codes |-> text.icd, procedure_codes |-> text.cpt,
         physician_identifiers |-> text.phys,
         authorization_indicators |-> text.auth,
         matched_policies |-> s.policies, detected_risks |-> s.risks,
         is_consistent |-> s.is_consistent,
         confidence |-> IF s.is_consistent THEN 95
                        ELSE IF text.icd # {} \/ text.cpt # {} THEN 72
                        ELSE 40]

\* confidence in hundredths: 0.95 -> 95, 0.72 -> 72, 0.4 -> 40
extract(text) ==
    IF text.empty
    THEN [diagnosis_codes |-> {}, procedure_codes |-> {},
          physician_identifiers |-> {}, authorization_indicators |-> {},
          matched_policies |-> {}, detected_risks |-> {"NO_TEXT_AVAILABLE"},
          is_consistent |-> FALSE, confidence |-> 0]
    ELSE LET s == build_policy_and_risk_signals(text.icd, text.cpt,
                                                text.phys, text.auth)
         IN  [diagnosis_codes |-> text.icd, procedure_codes |-> text.cpt,
              physician_identifiers |-> text.phys,
              authorization_indicators |-> text.auth,
              matched_policies |-> s.policies, detected_risks |-> s.risks,
              is_consistent |-> s.is_consistent,
              confidence |-> IF s.is_consistent THEN 95
                             ELSE IF text.icd # {} \/ text.cpt # {} THEN 72
                             ELSE 40]

(***************************************************************************)
(* RevalidationOrchestrator: the decision of one revalidate_claim run      *)
(***************************************************************************)
map_recommendation_to_status_default_only(recommendation) ==
    CASE recommendation = "AUTO_APPROVE" -> "pending_review"
      [] recommendation = "APPROVE_WITH_REVIEW" -> "pending_review"
      [] recommendation = "COMPLIANCE_REVIEW_REQUIRED" -> "compliance_review"
      [] OTHER -> "pending_review"

map_recommendation_to_status(recommendation) ==
    CASE recommendation = "AUTO_APPROVE" -> "pending_review"
      [] recommendation = "APPROVE_WITH_REVIEW" -> "pending_review"
      [] recommendation = "COMPLIANCE_REVIEW_REQUIRED" -> "compliance_review"
      [] recommendation = "HIGH_RISK_HOLD" -> "compliance_review"
      [] OTHER -> "pending_review"

build_reviewer_suggestion(recommendation, detected_risks) ==
    IF recommendation = "AUTO_APPROVE" THEN "approve_unless_discrepancy"
    ELSE IF "MISSING_AUTHORIZATION" \in detected_risks
         THEN "request_prior_authorization"
    ELSE IF recommendation = "HIGH_RISK_HOLD" THEN "escalate_to_specialist"
    ELSE "targeted_compliance_review"

auto_approval_eligible_no_provider_check(recommendation, detected_risks) ==
    /\ recommendation = "AUTO_APPROVE"
    /\ "MISSING_AUTHORIZATION" \notin detected_risks

auto_approval_eligible(recommendation, detected_risks) ==
    /\ recommendation = "AUTO_APPROVE"
    /\ "MISSING_AUTHORIZATION" \notin detected_risks
    /\ "MISSING_PROVIDER_IDENTIFIER" \notin detected_risks

workflow_decision_ignoring_draft(status, recommendation) ==
    [next_status |-> map_recommendation_to_status(recommendation),
     workflow_stage |-> IF recommendation = "AUTO_APPROVE"
                        THEN "auto_approval_review" ELSE "compliance_review"]

\* next_status and workflow_stage, lines 98-102 and 109-112
workflow_decision(status, recommendation) ==
    IF status = "draft"
    THEN [next_status |-> "draft",
          workflow_stage |-> "pre_submission_revalidation"]
    ELSE [next_status |-> map_recommendation_to_status(recommendation),
          workflow_stage |-> IF recommendation = "AUTO_APPROVE"
                             THEN "auto_approval_review"
                             ELSE "compliance_review"]

\* Everything revalidate_claim derives from the claim status it read, the
\* ensemble's trust score and the combined document text.
Decide(status, trust_score, text) ==
    LET facts == extract(text)
        rec   == determine_recommendation(trust_score)
        wf    == workflow_decision(status, rec)
    IN  [trust_score |-> trust_score,
         recommendation |-> rec,
         detected_risks |-> facts.detected_risks,
         workflow_stage |-> wf.workflow_stage,
         auto_approval_eligible |->
             auto_approval_eligible(rec, facts.detected_risks),
         reviewer_suggestion |->
             build_reviewer_suggestion(rec, facts.detected_risks),
         next_status |-> wf.next_status]

NoDecision ==
    [trust_score |-> 0, recommendation |-> None, detected_risks |-> {},
     workflow_stage |-> None, auto_approval_eligible |-> FALSE,
     reviewer_suggestion |-> None, next_status |-> None]

(***************************************************************************)
(* Celery retry policy of the scoring tasks (app/tasks/ai_tasks.py)        *)
(***************************************************************************)
Tasks == {"analyze_claim_async", "process_document_ocr",
          "revalidate_claim_after_upload"}

max_retries(t) ==
    CASE t = "analyze_claim_async" -> 3
      [] t = "process_document_ocr" -> 3
      [] t = "revalidate_claim_after_upload" -> 2

default_retry_delay(t) ==
    CASE t = "analyze_claim_async" -> 60
      [] t = "process_document_ocr" -> 30
      [] t = "revalidate_claim_after_upload" -> 20

\* self.retry(exc=exc): the task is sent again while request.retries is
\* below max_retries; otherwise the exception is raised and the task ends.
may_retry(t, retries) == retries < max_retries(t)

\* self.retry is called without countdown: default_retry_delay applies.
retry_countdown(t, retries) == default_retry_delay(t)

(***************************************************************************)
(* SpecDecision: the decision functions applied to every input             *)
(***************************************************************************)
DecisionStatuses ==
    {"draft", "submitted", "ai_analyzing", "pending_review",
     "compliance_review"}

TrustBoundaries == {0, 3999, 4000, 5999, 6000, 8499, 8500, 10000}

FlowParked ==
    /\ claim = None /\ hasDocs = FALSE /\ ai_results = <<>>
    /\ queue = <<>> /\ reval = None /\ task = None
    /\ budget = 0 /\ hist = None

EngineParked ==
    /\ engine_instance = 0 /\ engines = <<>> /\ thr = None /\ env = None
    /\ obs = None

RetryParked == rt = None

DecisionParked == dec = None

PureParked == sc = None /\ fb = None

InitDecision ==
    /\ dec \in [pc : {"input"}, status : DecisionStatuses,
                trust : TrustBoundaries, text : Texts, out : {NoDecision},
                facts : {NoFacts}]
    /\ FlowParked /\ EngineParked /\ RetryParked /\ PureParked

DecideStep ==
    /\ dec.pc = "input"
    /\ dec' = [dec EXCEPT !.pc = "decided",
                          !.facts = extract(dec.text),
                          !.out = Decide(dec.status, dec.trust, dec.text)]
    /\ UNCHANGED <<flowVars, engineVars, retryVars, pureVars>>

NextDecision == DecideStep

SpecDecision == InitDecision /\ [][NextDecision]_vars

(***************************************************************************)
(* C2: auto_approval_eligible is true exactly when the recommendation is   *)
(* AUTO_APPROVE and neither MISSING_AUTHORIZATION nor                      *)
(* MISSING_PROVIDER_IDENTIFIER is among the extracted risks; with          *)
(* MISSING_AUTHORIZATION among the risks it is false for every             *)
(* recommendation and trust score.                                         *)
(***************************************************************************)
C2_AutoApprovalIsConjunction ==
    dec.pc = "decided" =>
        /\ dec.out.auto_approval_eligible <=>
               /\ dec.out.recommendation = "AUTO_APPROVE"
               /\ "MISSING_AUTHORIZATION" \notin dec.out.detected_risks
               /\ "MISSING_PROVIDER_IDENTIFIER" \notin dec.out.detected_risks
        /\ "MISSING_AUTHORIZATION" \in dec.out.detected_risks
               => ~dec.out.auto_approval_eligible

C2_Witness ==
    /\ dec.pc = "decided"
    /\ dec.out.recommendation = "AUTO_APPROVE"
    /\ dec.trust = 10000
    /\ "MISSING_AUTHORIZATION" \in dec.out.detected_risks
    /\ "MISSING_PROVIDER_IDENTIFIER" \notin dec.out.detected_risks
    /\ ~dec.out.auto_approval_eligible

(***************************************************************************)
(* C12: for a claim whose status is not 'draft' the decision depends on    *)
(* the recommendation alone: AUTO_APPROVE and APPROVE_WITH_REVIEW give     *)
(* status 'pending_review', COMPLIANCE_REVIEW_REQUIRED and HIGH_RISK_HOLD  *)
(* give 'compliance_review'; the stage is 'auto_approval_review' exactly   *)
(* for AUTO_APPROVE and 'compliance_review' otherwise.                     *)
(***************************************************************************)
C12_NonDraftDecisionByRecommendation ==
    (dec.pc = "decided" /\ dec.status # "draft") =>
        /\ dec.out.next_status =
               (IF dec.out.recommendation
                       \in {"AUTO_APPROVE", "APPROVE_WITH_REVIEW"}
                THEN "pending_review" ELSE "compliance_review")
        /\ dec.out.workflow_stage =
               (IF dec.out.recommendation = "AUTO_APPROVE"
                THEN "auto_approval_review" ELSE "compliance_review")

C12_Witness ==
    /\ dec.pc = "decided" /\ dec.status = "submitted"
    /\ dec.out.recommendation = "HIGH_RISK_HOLD"
    /\ dec.out.next_status = "compliance_review"
    /\ dec.out.workflow_stage = "compliance_review"

(***************************************************************************)
(* C13: reviewer guidance by priority, missing authorization first: with   *)
(* MISSING_AUTHORIZATION among the risks the guidance is to request the    *)
(* prior-authorization document, for every recommendation; otherwise       *)
(* AUTO_APPROVE gives approve-unless-discrepancy, otherwise HIGH_RISK_HOLD *)
(* gives escalate-to-specialist, otherwise targeted review.                *)
(***************************************************************************)
C13_GuidanceAuthorizationFirst ==
    dec.pc = "decided" =>
        dec.out.reviewer_suggestion =
            (IF "MISSING_AUTHORIZATION" \in dec.out.detected_risks
             THEN "request_prior_authorization"
             ELSE IF dec.out.recommendation = "AUTO_APPROVE"
             THEN "approve_unless_discrepancy"
             ELSE IF dec.out.recommendation = "HIGH_RISK_HOLD"
             THEN "escalate_to_specialist"
             ELSE "targeted_compliance_review")

(***************************************************************************)
(* C18: the recommendation bands are inclusive at their lower bound:       *)
(* trust >= 85 AUTO_APPROVE, 60 <= trust < 85 APPROVE_WITH_REVIEW,          *)
(* 40 <= trust < 60 COMPLIANCE_REVIEW_REQUIRED, trust < 40 HIGH_RISK_HOLD; *)
(* 85.00 gives AUTO_APPROVE, 84.99 and 60.00 APPROVE_WITH_REVIEW, 39.99    *)
(* HIGH_RISK_HOLD.                                                         *)
(***************************************************************************)
C18_RecommendationBands ==
    dec.pc = "decided" =>
        /\ dec.trust >= 8500 => dec.out.recommendation = "AUTO_APPROVE"
        /\ (6000 <= dec.trust /\ dec.trust < 8500)
               => dec.out.recommendation = "APPROVE_WITH_REVIEW"
        /\ (4000 <= dec.trust /\ dec.trust < 6000)
               => dec.out.recommendation = "COMPLIANCE_REVIEW_REQUIRED"
        /\ dec.trust < 4000 => dec.out.recommendation = "HIGH_RISK_HOLD"
        /\ dec.trust \in {8499, 6000}
               => dec.out.recommendation = "APPROVE_WITH_REVIEW"
        /\ dec.trust = 3999 => dec.out.recommendation = "HIGH_RISK_HOLD"

C18_Witness ==
    /\ dec.pc = "decided" /\ dec.trust = 8500
    /\ dec.out.recommendation = "AUTO_APPROVE"

(***************************************************************************)
(* C20: on empty text the extractor returns confidence 0, the single risk  *)
(* NO_TEXT_AVAILABLE, is_consistent false and empty code, identifier,      *)
(* indicator and policy lists.                                             *)
(***************************************************************************)
C20_EmptyTextFacts ==
    (dec.pc = "decided" /\ dec.text.empty) =>
        /\ dec.facts.confidence = 0
        /\ dec.facts.detected_risks = {"NO_TEXT_AVAILABLE"}
        /\ ~dec.facts.is_consistent
        /\ dec.facts.diagnosis_codes = {}
        /\ dec.facts.procedure_codes = {}
        /\ dec.facts.physician_identifiers = {}
        /\ dec.facts.authorization_indicators = {}
        /\ dec.facts.matched_policies = {}

C20_Witness ==
    /\ dec.pc = "decided" /\ dec.text = EmptyText
    /\ dec.facts.detected_risks = {"NO_TEXT_AVAILABLE"}
    /\ dec.out.detected_risks = {"NO_TEXT_AVAILABLE"}

\* policy tag and risk tag of each of the three checks of the extractor
PolicyRiskPairs ==
    {<<"DIAGNOSIS_PROCEDURE_LINKED", "DIAGNOSIS_PROCEDURE_MISMATCH">>,
     <<"PRIOR_AUTH_MATCHED", "MISSING_AUTHORIZATION">>,
     <<"PROVIDER_IDENTIFIER_PRESENT", "MISSING_PROVIDER_IDENTIFIER">>}

(***************************************************************************)
(* C26: for non-empty text each of the three checks yields exactly one of  *)
(* its policy tag or its risk tag, according to what was extracted;        *)
(* NO_BILLABLE_CODE_EXTRACTED is a risk exactly when neither diagnosis nor *)
(* procedure codes were found; is_consistent is true exactly when all      *)
(* three policy tags are present, which is exactly when no risk was        *)
(* detected; confidence is 0.95 when consistent, 0.72 when inconsistent    *)
(* with a code found and 0.4 when no code was found.                       *)
(***************************************************************************)
C26_ExtractorTagsAndConfidence ==
    (dec.pc = "decided" /\ ~dec.text.empty) =>
        LET f == dec.facts
            any_code == f.diagnosis_codes # {} \/ f.procedure_codes # {}
        IN  /\ \A pr \in PolicyRiskPairs :
                   (pr[1] \in f.matched_policies)
                       <=> (pr[2] \notin f.detected_risks)
            /\ "DIAGNOSIS_PROCEDURE_LINKED" \in f.matched_policies
                   <=> (f.diagnosis_codes # {} /\ f.procedure_codes # {})
            /\ "PRIOR_AUTH_MATCHED" \in f.matched_policies
                   <=> f.authorization_indicators # {}
            /\ "PROVIDER_IDENTIFIER_PRESENT" \in f.matched_policies
                   <=> f.physician_identifiers # {}
            /\ "NO_BILLABLE_CODE_EXTRACTED" \in f.detected_risks
                   <=> ~any_code
            /\ f.detected_risks \subseteq
                   {pr[2] : pr \in PolicyRiskPairs}
                       \cup {"NO_BILLABLE_CODE_EXTRACTED"}
            /\ f.is_consistent
                   <=> \A pr \in PolicyRiskPairs : pr[1] \in f.matched_policies
            /\ f.is_consistent <=> f.detected_risks = {}
            /\ f.confidence = (IF f.is_consistent THEN 95
                               ELSE IF any_code THEN 72 ELSE 40)

C26_Witness ==
    /\ dec.pc = "decided" /\ ~dec.text.empty
    /\ dec.facts.diagnosis_codes = {"E11.9"}
    /\ dec.facts.procedure_codes = {}
    /\ dec.facts.authorization_indicators # {}
    /\ dec.facts.physician_identifiers = {}
    /\ dec.facts.matched_policies = {"PRIOR_AUTH_MATCHED"}
    /\ dec.facts.detected_risks =
           {"DIAGNOSIS_PROCEDURE_MISMATCH", "MISSING_PROVIDER_IDENTIFIER"}
    /\ ~dec.facts.is_consistent
    /\ dec.facts.confidence = 72

(***************************************************************************)
(* Spec: the claim workflow.  One claim, its documents, its ai_results     *)
(* history; one revalidate_claim invocation and one analyze_claim_async    *)
(* attempt may be in progress at a time and interleave at their data-store *)
(* calls.  Every data-store call may fail (the store is unavailable), and  *)
(* so may the steps that depend on other services.  A nullable column      *)
(* holds {} (null) or {value}.                                             *)
(***************************************************************************)
MaxRuns == 3    \* revalidate_claim invocations plus analyze_claim_async
                \* attempts that get to run

FlowTrust == {3500, 9000}

FullText   == [empty |-> FALSE, icd |-> IcdCodes, cpt |-> CptCodes,
               phys |-> PhysIds, auth |-> {"PRIOR_AUTH_DECLARED"}]
FlowTexts  == {FullText}

ReviewableStatuses == {"pending_review", "compliance_review"}

NoExplanation ==
    [trust_score |-> {}, workflow_stage |-> {},
     auto_approval_eligible |-> {}, reviewer_suggestion |-> {}]

\* create_claim: a new claim is a draft with no AI fields
NewClaim ==
    [status |-> "draft", trust_score |-> {}, ai_recommendation |-> {},
     workflow_stage |-> {}, auto_approval_eligible |-> {},
     reviewer_suggestion |-> {}, ai_explanation |-> NoExplanation]

DecisionFields ==
    {"trust_score", "ai_recommendation", "status", "workflow_stage",
     "auto_approval_eligible", "reviewer_suggestion", "ai_explanation"}

\* ai_explanation as revalidate_claim builds it, lines 114-129: every key
\* the analysis writes is overwritten too
reval_explanation(d) ==
    [trust_score |-> {d.trust_score},
     workflow_stage |-> {d.workflow_stage},
     auto_approval_eligible |-> {d.auto_approval_eligible},
     reviewer_suggestion |-> {d.reviewer_suggestion}]

basic_update_without_scores(row, d) ==
    [row EXCEPT !.status = d.next_status,
                !.ai_explanation = reval_explanation(d)]

\* basic_update_data, lines 151-162
basic_update(row, d) ==
    [row EXCEPT !.trust_score = {d.trust_score},
                !.ai_recommendation = {d.recommendation},
                !.status = d.next_status,
                !.ai_explanation = reval_explanation(d)]

extended_update_keeping_status(row, d) ==
    [basic_update(row, d) EXCEPT
        !.status = row.status,
        !.workflow_stage = {d.workflow_stage},
        !.auto_approval_eligible = {d.auto_approval_eligible},
        !.reviewer_suggestion = {d.reviewer_suggestion}]

\* update_data, lines 131-150
extended_update(row, d) ==
    [basic_update(row, d) EXCEPT
        !.workflow_stage = {d.workflow_stage},
        !.auto_approval_eligible = {d.auto_approval_eligible},
        !.reviewer_suggestion = {d.reviewer_suggestion}]

\* the claim update of analyze_claim_async, lines 103-123
analysis_update(row, trust_score) ==
    [row EXCEPT
        !.trust_score = {trust_score},
        !.ai_recommendation = {determine_recommendation(trust_score)},
        !.ai_explanation = [NoExplanation EXCEPT !.trust_score = {trust_score}],
        !.status = map_recommendation_to_status(
                       determine_recommendation(trust_score))]

reval_record(d) ==
    [pipeline |-> "upload_revalidation", trust_score |-> d.trust_score,
     final_recommendation |-> d.recommendation]

analysis_record(trust_score) ==
    [pipeline |-> "full_analysis", trust_score |-> trust_score,
     final_recommendation |-> determine_recommendation(trust_score)]

\* who wrote each decision field last ("none", "reval" or "analysis")
Wrote(origin, fields, who) ==
    [f \in DecisionFields |-> IF f \in fields THEN who ELSE origin[f]]

BasicFields ==
    {"trust_score", "ai_recommendation", "status", "ai_explanation"}

AnalysisFields == BasicFields

RevalIdle == reval.pc \in {"idle", "returned", "raised", "error"}
TaskIdle  == task.pc \in {"idle", "done", "gave_up"}

InitFlow(runs) ==
    /\ claim = NewClaim
    /\ hasDocs = FALSE
    /\ ai_results = <<>>
    /\ queue = <<>>
    /\ reval = [pc |-> "idle", status |-> None, d |-> NoDecision,
                appended |-> 0, message |-> None, effects |-> {}]
    /\ task = [pc |-> "idle", retries |-> 0, trust |-> 0,
               notified |-> FALSE]
    /\ budget = runs
    /\ hist = [submitted |-> FALSE,
               origin |-> [f \in DecisionFields |-> None]]
    /\ DecisionParked /\ EngineParked /\ RetryParked /\ PureParked

Init == InitFlow(MaxRuns)

Others == <<decisionVars, engineVars, retryVars, pureVars>>

(* ---- the users ---- *)

\* upload_claim_document / upload_medical_record store a document row
UploadDocument ==
    /\ ~hasDocs
    /\ claim.status \in {"draft", "submitted"}
    /\ hasDocs' = TRUE
    /\ UNCHANGED <<claim, ai_results, queue, reval, task, budget,
                   hist, Others>>

\* submit_claim, claims.py lines 215-248
submit_claim ==
    /\ claim.status = "draft"
    /\ hasDocs
    /\ claim' = [claim EXCEPT !.status = "submitted"]
    /\ queue' = Append(queue, 0)
    /\ hist' = [hist EXCEPT !.submitted = TRUE]
    /\ UNCHANGED <<hasDocs, ai_results, reval, task, budget, Others>>

(* ---- RevalidationService.revalidate_claim ---- *)

\* lines 51-58: the invocation starts and reads the claim
RevalStart ==
    /\ RevalIdle /\ budget > 0
    /\ budget' = budget - 1
    /\ \/ reval' = [pc |-> "score", status |-> claim.status,
                    d |-> NoDecision, appended |-> 0,
                    message |-> None, effects |-> {}]
       \/ reval' = [pc |-> "error", status |-> None,
                    d |-> NoDecision, appended |-> 0,
                    message |-> "Claim not found", effects |-> {}]
       \/ reval' = [pc |-> "raised", status |-> None,
                    d |-> NoDecision, appended |-> 0,
                    message |-> None, effects |-> {}]
    /\ UNCHANGED <<claim, hasDocs, ai_results, queue, task, hist,
                   Others>>

has_documents_unchecked(docs) == TRUE

\* line 68, "if not docs": whether the claim_documents query returned rows
has_documents(docs) == docs

\* lines 60-112: reads the documents, extracts, scores, decides
RevalScore ==
    /\ reval.pc = "score"
    /\ \/ reval' = [reval EXCEPT !.pc = "raised"]
       \/ /\ ~has_documents(hasDocs)
          /\ reval' = [reval EXCEPT
                          !.pc = "error",
                          !.message = "No documents found for claim"]
       \/ /\ has_documents(hasDocs)
          /\ \E trust \in FlowTrust, text \in FlowTexts :
                reval' = [reval EXCEPT
                             !.pc = "update",
                             !.d = Decide(reval.status, trust, text)]
    /\ UNCHANGED <<claim, hasDocs, ai_results, queue, task, budget,
                   hist, Others>>

\* lines 163-170: the extended update, or on its failure the basic update,
\* whose failure is raised
RevalUpdate ==
    /\ reval.pc = "update"
    /\ \/ /\ claim' = extended_update(claim, reval.d)
          /\ hist' = [hist EXCEPT
                         !.origin = Wrote(@, DecisionFields, "reval")]
          /\ reval' = [reval EXCEPT !.pc = "insert",
                                    !.effects = @ \cup {"claim_update"}]
       \/ /\ claim' = basic_update(claim, reval.d)
          /\ hist' = [hist EXCEPT
                         !.origin = Wrote(@, BasicFields, "reval")]
          /\ reval' = [reval EXCEPT !.pc = "insert",
                                    !.effects = @ \cup {"claim_update"}]
       \/ /\ reval' = [reval EXCEPT !.pc = "raised"]
          /\ UNCHANGED <<claim, hist>>
    /\ UNCHANGED <<hasDocs, ai_results, queue, task, budget, Others>>

\* lines 172-191: one record appended to ai_results
RevalInsert ==
    /\ reval.pc = "insert"
    /\ \/ /\ ai_results' = Append(ai_results, reval_record(reval.d))
          /\ reval' = [reval EXCEPT !.pc = "finish", !.appended = @ + 1,
                                    !.effects = @ \cup {"ai_result"}]
       \/ /\ reval' = [reval EXCEPT !.pc = "raised"]
          /\ UNCHANGED ai_results
    /\ UNCHANGED <<claim, hasDocs, queue, task, budget, hist, Others>>

\* lines 193-232: the audit event (AuditService.log swallows its failure),
\* the follow-up analyze_claim_async (a failure to queue it is logged only),
\* and the result
RevalFinish ==
    /\ reval.pc = "finish"
    /\ \/ /\ queue' = Append(queue, 0)
          /\ reval' = [reval EXCEPT
                          !.pc = "returned",
                          !.effects = @ \cup {"audit", "follow_up"}]
       \/ /\ UNCHANGED queue
          /\ reval' = [reval EXCEPT !.pc = "returned",
                                    !.effects = @ \cup {"audit"}]
    /\ UNCHANGED <<claim, hasDocs, ai_results, task, budget, hist,
                   Others>>

\* the dictionary revalidate_claim returns, lines 58, 69, 217-232
RevalResult ==
    CASE reval.pc = "returned" ->
             [status |-> "revalidated", message |-> None,
              workflow_stage |-> reval.d.workflow_stage,
              claim_status |-> reval.d.next_status,
              auto_approval_eligible |-> reval.d.auto_approval_eligible,
              reviewer_suggestion |-> reval.d.reviewer_suggestion,
              recommendation |-> reval.d.recommendation,
              trust_score |-> reval.d.trust_score]
      [] reval.pc = "error" ->
             [status |-> "error", message |-> reval.message,
              workflow_stage |-> None,
              claim_status |-> None, auto_approval_eligible |-> FALSE,
              reviewer_suggestion |-> None, recommendation |-> None,
              trust_score |-> 0]
      [] OTHER ->
             [status |-> None, message |-> None,
              workflow_stage |-> None,
              claim_status |-> None, auto_approval_eligible |-> FALSE,
              reviewer_suggestion |-> None, recommendation |-> None,
              trust_score |-> 0]

(* ---- analyze_claim_async ---- *)

\* lines 38-56: a queued message is taken, the claim is read and marked
AnalyzeBegin ==
    /\ TaskIdle /\ queue # <<>> /\ budget > 0
    /\ queue' = Tail(queue)
    /\ budget' = budget - 1
    /\ \/ /\ claim' = [claim EXCEPT !.status = "ai_analyzing"]
          /\ hist' = [hist EXCEPT
                         !.origin = Wrote(@, {"status"}, "analysis")]
          /\ task' = [pc |-> "score", retries |-> Head(queue), trust |-> 0,
                       notified |-> FALSE]
       \/ /\ task' = [pc |-> "failed", retries |-> Head(queue), trust |-> 0,
                       notified |-> FALSE]
          /\ UNCHANGED <<claim, hist>>
    /\ UNCHANGED <<hasDocs, ai_results, reval, Others>>

\* lines 58-101: documents, features, scoring, the ai_results record
AnalyzeScore ==
    /\ task.pc = "score"
    /\ \/ \E trust \in FlowTrust :
             /\ ai_results' = Append(ai_results, analysis_record(trust))
             /\ task' = [task EXCEPT !.pc = "update", !.trust = trust]
       \/ /\ task' = [task EXCEPT !.pc = "failed"]
          /\ UNCHANGED ai_results
    /\ UNCHANGED <<claim, hasDocs, queue, reval, budget, hist,
                   Others>>

\* lines 103-123: the claim's scores and next status
AnalyzeUpdate ==
    /\ task.pc = "update"
    /\ \/ /\ claim' = analysis_update(claim, task.trust)
          /\ hist' = [hist EXCEPT
                         !.origin = Wrote(@, AnalysisFields, "analysis")]
          /\ task' = [task EXCEPT !.pc = "post"]
       \/ /\ task' = [task EXCEPT !.pc = "failed"]
          /\ UNCHANGED <<claim, hist>>
    /\ UNCHANGED <<hasDocs, ai_results, queue, reval, budget, Others>>

\* line 139
notify_admin_threshold(trust_score) == trust_score < 4000

\* lines 125-152: audit event (AuditService swallows its failure), admin
\* notification when the trust score is below the threshold, then the trust
\* recomputation, whose dispatch may fail
AnalyzePost ==
    /\ task.pc = "post"
    /\ \/ task' = [task EXCEPT
                       !.pc = "done",
                       !.notified = notify_admin_threshold(task.trust)]
       \/ task' = [task EXCEPT
                       !.pc = "failed",
                       !.notified = notify_admin_threshold(task.trust)]
    /\ UNCHANGED <<claim, hasDocs, ai_results, queue, reval, budget,
                   hist, Others>>

\* lines 154-163: the handler resets the status if the store lets it, then
\* self.retry
AnalyzeFail ==
    /\ task.pc = "failed"
    /\ \/ /\ claim' = [claim EXCEPT !.status = "pending_review"]
          /\ hist' = [hist EXCEPT
                         !.origin = Wrote(@, {"status"}, "analysis")]
       \/ UNCHANGED <<claim, hist>>
    /\ IF may_retry("analyze_claim_async", task.retries)
       THEN /\ queue' = Append(queue, task.retries + 1)
            /\ task' = [task EXCEPT !.pc = "idle"]
       ELSE /\ task' = [task EXCEPT !.pc = "gave_up"]
            /\ UNCHANGED queue
    /\ UNCHANGED <<hasDocs, ai_results, reval, budget, Others>>

Next ==
    \/ UploadDocument \/ submit_claim
    \/ RevalStart \/ RevalScore \/ RevalUpdate \/ RevalInsert \/ RevalFinish
    \/ AnalyzeBegin \/ AnalyzeScore \/ AnalyzeUpdate \/ AnalyzePost
    \/ AnalyzeFail

Spec == Init /\ [][Next]_vars

\* One dispatch of analyze_claim_async on a submitted claim, with nothing
\* else running: the worker runs the first attempt and every retry.
InitExhaust == InitFlow(1 + max_retries("analyze_claim_async"))

NextExhaust ==
    \/ UploadDocument \/ submit_claim
    \/ AnalyzeBegin \/ AnalyzeScore \/ AnalyzeUpdate \/ AnalyzePost
    \/ AnalyzeFail

SpecExhaust == InitExhaust /\ [][NextExhaust]_vars

IsPrefix(s, t) == Len(s) <= Len(t) /\ SubSeq(t, 1, Len(s)) = s

(***************************************************************************)
(* C1: a revalidate_claim run that read the claim in status 'draft'        *)
(* writes status 'draft' for every ensemble recommendation, and the        *)
(* workflow stage it writes and returns is 'pre_submission_revalidation'.  *)
(***************************************************************************)
C1_DraftRevalidationKeepsDraft ==
    /\ [][ (reval.pc = "update" /\ reval'.pc = "insert"
                /\ reval.status = "draft")
           => /\ claim'.status = "draft"
              /\ claim'.ai_explanation.workflow_stage
                     = {"pre_submission_revalidation"}
              /\ claim'.workflow_stage
                     \in {claim.workflow_stage,
                          {"pre_submission_revalidation"}} ]_vars
    /\ [](reval.pc = "returned" /\ reval.status = "draft"
           => /\ RevalResult.claim_status = "draft"
              /\ RevalResult.workflow_stage = "pre_submission_revalidation")

C1_Witness ==
    /\ reval.pc = "returned" /\ reval.status = "draft"
    /\ reval.d.recommendation = "AUTO_APPROVE"
    /\ hist.origin["workflow_stage"] = "reval"
    /\ hist.origin["status"] = "reval"
    /\ claim.status = "draft"
    /\ claim.workflow_stage = {"pre_submission_revalidation"}

(***************************************************************************)
(* C3: with no submit action by a user, a claim that starts as a draft is  *)
(* still a draft after a revalidation and the follow-up analysis it        *)
(* schedules, and never passes through 'ai_analyzing', 'pending_review'    *)
(* or 'compliance_review'.                                                 *)
(***************************************************************************)
C3_NoProgressWithoutSubmit ==
    ~hist.submitted =>
        claim.status \notin {"ai_analyzing", "pending_review",
                             "compliance_review"}

(***************************************************************************)
(* C7: when a revalidation and a full analysis of the claim have both      *)
(* completed, the claim's decision fields all come from the run that wrote *)
(* last, never some from one run and some from the other.                  *)
(***************************************************************************)
C7_DecisionFieldsFromOneRun ==
    (reval.pc = "returned" /\ task.pc = "done" /\ queue = <<>>) =>
        \A f, g \in DecisionFields :
            (hist.origin[f] # None /\ hist.origin[g] # None)
                => hist.origin[f] = hist.origin[g]

C9_GiveUpLeavesNoAnalyzingStatus ==
    task.pc = "gave_up" => claim.status # "ai_analyzing"

(***************************************************************************)
(* C11: a revalidate_claim invocation that finds no claim, or no document  *)
(* of the claim, ends with an error outcome and has written nothing: no    *)
(* claim update, no ai_results record, no audit event, no follow-up        *)
(* analysis.                                                               *)
(***************************************************************************)
C11_InputAbsenceNoPartialUpdate ==
    /\ [][ (reval.pc = "score" /\ ~hasDocs
                /\ reval'.pc \notin {"score", "raised"})
           => /\ reval'.pc = "error"
              /\ reval'.message = "No documents found for claim" ]_vars
    /\ [][ (reval' # reval /\ reval'.pc \in {"score", "error"})
           => UNCHANGED <<claim, ai_results, queue>> ]_vars
    /\ [](reval.pc = "error"
           => /\ RevalResult.status = "error"
              /\ RevalResult.message \in {"Claim not found",
                                          "No documents found for claim"}
              /\ reval.effects = {}
              /\ reval.appended = 0)

C11_Witness ==
    /\ reval.pc = "error"
    /\ RevalResult.message = "No documents found for claim"
    /\ ~hasDocs
    /\ claim = NewClaim /\ ai_results = <<>> /\ queue = <<>>

(***************************************************************************)
(* C23: a scoring run that ends with a trust score below 40 has triggered  *)
(* the administrator notification, be it a revalidation or the full        *)
(* analysis, and a run that ends with 40 or more has not.                  *)
(***************************************************************************)
C23_LowTrustNotifiesAdmin ==
    /\ reval.pc = "returned" =>
           ("admin_notification" \in reval.effects
                <=> reval.d.trust_score < 4000)
    /\ task.pc = "done" => (task.notified <=> task.trust < 4000)

(***************************************************************************)
(* C27: a revalidation that read the claim as a draft and whose claim was  *)
(* submitted (or moved further) before its write does not put the status   *)
(* back to 'draft'.                                                        *)
(***************************************************************************)
C27_NoStaleStatusWrite ==
    [][ (reval.pc = "update" /\ reval'.pc = "insert"
             /\ reval.status = "draft" /\ claim.status # "draft")
        => claim'.status # "draft" ]_vars

(***************************************************************************)
(* C28: when the scoring runs of a claim have all completed (here one      *)
(* revalidation that returned and one analysis that succeeded at its first *)
(* attempt, in any interleaving, nothing queued), the claim's trust score  *)
(* and recommendation are those of the last record of ai_results.          *)
(***************************************************************************)
C28_ClaimMatchesLatestRecord ==
    (/\ reval.pc = "returned"
     /\ task.pc = "done" /\ task.retries = 0
     /\ queue = <<>> /\ MaxRuns - budget = 2) =>
        LET last == ai_results[Len(ai_results)]
        IN  /\ claim.trust_score = {last.trust_score}
            /\ claim.ai_recommendation = {last.final_recommendation}

(***************************************************************************)
(* C29: once analyze_claim_async has terminated, by success or by giving   *)
(* up after its last retry, with no other actor writing the claim, the     *)
(* claim's status is the one the recommendation-to-status map gives for    *)
(* the stored ai_recommendation.                                           *)
(***************************************************************************)
C29_StatusAgreesWithRecommendation ==
    (task.pc \in {"done", "gave_up"} /\ claim.ai_recommendation # {}) =>
        \A r \in claim.ai_recommendation :
            claim.status = map_recommendation_to_status(r)

(***************************************************************************)
(* C30: in revalidate_claim the ai_results record is appended only after   *)
(* the claim's live fields were written (and the audit event and the       *)
(* follow-up only after the record); the update that succeeds, extended or *)
(* base, writes the status, trust score and recommendation of the          *)
(* decision; and when both updates fail the invocation raises having       *)
(* changed nothing: no claim field, no ai_results record, no audit event,  *)
(* no follow-up.                                                           *)
(***************************************************************************)
C30_UpdateBeforeHistory ==
    /\ [](/\ "ai_result" \in reval.effects
              => "claim_update" \in reval.effects
          /\ "audit" \in reval.effects => "ai_result" \in reval.effects
          /\ "follow_up" \in reval.effects => "audit" \in reval.effects
          /\ reval.appended > 0 <=> "ai_result" \in reval.effects)
    /\ [][ (reval.pc = "update" /\ reval'.pc = "insert")
           => /\ claim' \in {extended_update(claim, reval.d),
                             basic_update(claim, reval.d)}
              /\ claim'.status = reval.d.next_status
              /\ claim'.trust_score = {reval.d.trust_score}
              /\ claim'.ai_recommendation = {reval.d.recommendation}
              /\ reval'.effects = {"claim_update"}
              /\ ai_results' = ai_results ]_vars
    /\ [][ (reval.pc = "update" /\ reval'.pc = "raised")
           => /\ claim' = claim
              /\ ai_results' = ai_results
              /\ queue' = queue
              /\ reval'.effects = {}
              /\ reval'.appended = 0 ]_vars

\* a first invocation fell back to the base update and completed; a second
\* one failed both updates
C30_Witness ==
    /\ reval.pc = "raised" /\ reval.d # NoDecision /\ reval.effects = {}
    /\ claim.trust_score # {} /\ claim.workflow_stage = {}
    /\ hist.origin["trust_score"] = "reval"
    /\ Len(ai_results) = 1
    /\ ai_results[1].pipeline = "upload_revalidation"
    /\ claim.trust_score = {ai_results[1].trust_score}

(***************************************************************************)
(* SpecEngine: the scoring engine used for the first time by concurrent    *)
(* callers (ai/models/ensemble_engine.py).  env says, for the process,     *)
(* what loading each artifact does: "ok", "missing" (FileNotFoundError or  *)
(* ImportError) or "corrupt" (any other exception, such as an unpickling   *)
(* error).  Each thread calls get_ai_engine() and then analyze().          *)
(***************************************************************************)
MaxCalls == 2   \* analyze calls per thread

Threads == {"t1", "t2"}

ArtifactStates == {"ok", "missing", "corrupt"}

Envs ==
    [xgboost_fraud : ArtifactStates, rf_approval : ArtifactStates,
     isolation_forest : ArtifactStates, spacy : {"ok", "fail"},
     autoencoder : {"no_tensorflow", "missing", "ok"}]

\* EnsembleIntelligenceEngine.__init__; a model field is TRUE when it
\* holds a loaded model and FALSE when it is None.
NewEngine ==
    [xgb_model |-> FALSE, rf_model |-> FALSE, isolation_model |-> FALSE,
     autoencoder_model |-> FALSE, nlp_pipeline |-> FALSE,
     models_loaded |-> FALSE]

NoSklearn(e) ==
    [e EXCEPT !.xgb_model = FALSE, !.rf_model = FALSE,
              !.isolation_model = FALSE]

\* _load_sklearn_models: three joblib.load calls in order.  A missing
\* file resets the three models and returns; any other exception leaves
\* the models assigned so far and propagates to _load_models.
load_sklearn_models(e, en) ==
    IF en.xgboost_fraud = "missing"
    THEN [engine |-> NoSklearn(e), raised |-> FALSE]
    ELSE IF en.xgboost_fraud = "corrupt"
    THEN [engine |-> e, raised |-> TRUE]
    ELSE LET e1 == [e EXCEPT !.xgb_model = TRUE] IN
      IF en.rf_approval = "missing"
      THEN [engine |-> NoSklearn(e1), raised |-> FALSE]
      ELSE IF en.rf_approval = "corrupt"
      THEN [engine |-> e1, raised |-> TRUE]
      ELSE LET e2 == [e1 EXCEPT !.rf_model = TRUE] IN
        IF en.isolation_forest = "missing"
        THEN [engine |-> NoSklearn(e2), raised |-> FALSE]
        ELSE IF en.isolation_forest = "corrupt"
        THEN [engine |-> e2, raised |-> TRUE]
        ELSE [engine |-> [e2 EXCEPT !.isolation_model = TRUE],
              raised |-> FALSE]

SklearnLoadFails(en) ==
    \/ en.xgboost_fraud # "ok"
    \/ en.xgboost_fraud = "ok" /\ en.rf_approval # "ok"
    \/ en.xgboost_fraud = "ok" /\ en.rf_approval = "ok"
           /\ en.isolation_forest # "ok"

\* The adapters of one analyze call that score with a learned model.
\* _run_autoencoder loads its model inside the call.
learned_adapters(e, en) ==
    (IF e.xgb_model THEN {"xgboost"} ELSE {})
    \cup (IF e.rf_model THEN {"random_forest"} ELSE {})
    \cup (IF e.isolation_model THEN {"isolation_forest"} ELSE {})
    \cup (IF en.autoencoder = "ok" THEN {"autoencoder"} ELSE {})
    \cup (IF e.nlp_pipeline THEN {"nlp"} ELSE {})

IdleThread == [pc |-> "idle", eng |-> 0, calls |-> 0, used |-> {}]

InitEngine ==
    /\ engine_instance = 0
    /\ engines = <<>>
    /\ thr = [t \in Threads |-> IdleThread]
    /\ env \in Envs
    /\ obs = [loaders |-> <<>>, load_failed |-> <<>>, returned |-> <<>>]
    /\ DecisionParked /\ FlowParked /\ RetryParked /\ PureParked

NotEngine == <<decisionVars, flowVars, retryVars, pureVars>>

\* get_ai_engine, line "if _engine_instance is None": the global is read.
get_ai_engine_check(t) ==
    /\ thr[t].pc = "idle" /\ thr[t].calls < MaxCalls
    /\ thr' = [thr EXCEPT ![t].used = {},
                          ![t].eng = engine_instance,
                          ![t].pc = IF engine_instance = 0
                                    THEN "create" ELSE "load_check"]
    /\ UNCHANGED <<engine_instance, engines, env, obs, NotEngine>>

\* get_ai_engine, the branch taken when the global was read as None: an
\* engine is constructed, stored in the global and returned.
get_ai_engine_create(t) ==
    /\ thr[t].pc = "create"
    /\ engines' = Append(engines, NewEngine)
    /\ engine_instance' = Len(engines) + 1
    /\ obs' = [loaders     |-> Append(obs.loaders, {}),
               load_failed |-> Append(obs.load_failed, FALSE),
               returned    |-> Append(obs.returned, FALSE)]
    /\ thr' = [thr EXCEPT ![t].eng = Len(engines) + 1,
                          ![t].pc = "load_check"]
    /\ UNCHANGED <<env, NotEngine>>

\* analyze -> _load_models, line "if self._models_loaded: return".
load_models_check(t) ==
    /\ thr[t].pc = "load_check"
    /\ thr' = [thr EXCEPT ![t].pc = IF engines[thr[t].eng].models_loaded
                                    THEN "run" ELSE "load_sklearn"]
    /\ UNCHANGED <<engine_instance, engines, env, obs, NotEngine>>

load_sklearn_step(t) ==
    /\ thr[t].pc = "load_sklearn"
    /\ LET e == thr[t].eng
           r == load_sklearn_models(engines[e], env)
       IN /\ engines' = [engines EXCEPT ![e] = r.engine]
          /\ obs' = [obs EXCEPT
                 !.loaders[e] = @ \cup {t},
                 !.load_failed[e] = @ \/ SklearnLoadFails(env)]
          /\ thr' = [thr EXCEPT ![t].pc = IF r.raised THEN "load_except"
                                          ELSE "load_nlp"]
    /\ UNCHANGED <<engine_instance, env, NotEngine>>

\* _load_nlp_pipeline: every exception is swallowed.
load_nlp_pipeline(t) ==
    /\ thr[t].pc = "load_nlp"
    /\ LET e == thr[t].eng
       IN /\ engines' = [engines EXCEPT
                 ![e].nlp_pipeline = (env.spacy = "ok")]
          /\ obs' = [obs EXCEPT
                 !.load_failed[e] = @ \/ env.spacy # "ok"]
    /\ thr' = [thr EXCEPT ![t].pc = "load_done"]
    /\ UNCHANGED <<engine_instance, env, NotEngine>>

\* _load_models: self._models_loaded = True, on success and in the
\* except branch alike.
load_models_done(t) ==
    /\ thr[t].pc \in {"load_done", "load_except"}
    /\ engines' = [engines EXCEPT ![thr[t].eng].models_loaded = TRUE]
    /\ thr' = [thr EXCEPT ![t].pc = "run"]
    /\ UNCHANGED <<engine_instance, env, obs, NotEngine>>

\* analyze: the five adapters run.
run_adapters(t) ==
    /\ thr[t].pc = "run"
    /\ thr' = [thr EXCEPT
           ![t].used = learned_adapters(engines[thr[t].eng], env),
           ![t].pc = "scored"]
    /\ UNCHANGED <<engine_instance, engines, env, obs, NotEngine>>

analyze_return(t) ==
    /\ thr[t].pc = "scored"
    /\ obs' = [obs EXCEPT !.returned[thr[t].eng] = TRUE]
    /\ thr' = [thr EXCEPT ![t].pc = "idle", ![t].calls = @ + 1]
    /\ UNCHANGED <<engine_instance, engines, env, NotEngine>>

NextEngine ==
    \E t \in Threads :
        \/ get_ai_engine_check(t) \/ get_ai_engine_create(t)
        \/ load_models_check(t) \/ load_sklearn_step(t)
        \/ load_nlp_pipeline(t) \/ load_models_done(t)
        \/ run_adapters(t) \/ analyze_return(t)

SpecEngine == InitEngine /\ [][NextEngine]_vars

\* A step of thread t that attempts to load a learned model.
LoadAttempt(t) ==
    \/ thr[t].pc = "load_sklearn" /\ thr'[t].pc # "load_sklearn"
    \/ thr[t].pc = "load_nlp" /\ thr'[t].pc # "load_nlp"
    \/ thr[t].pc = "run" /\ thr'[t].pc = "scored"
           /\ env.autoencoder # "no_tensorflow"

(***************************************************************************)
(* C4: under concurrent first use, at most one caller executes the model   *)
(* load of an engine, and get_ai_engine creates at most one engine.        *)
(***************************************************************************)
C4_LoadAndCreateAtMostOnce ==
    /\ Len(engines) <= 1
    /\ \A e \in 1..Len(engines) : Cardinality(obs.loaders[e]) <= 1

(***************************************************************************)
(* C5: once an analyze call on an engine has returned, no later step of    *)
(* an analyze call on that engine attempts to load a learned model.        *)
(***************************************************************************)
C5_NoLoadAfterFirstReturn ==
    [][ \A t \in Threads :
            (thr[t].eng # 0 /\ obs.returned[thr[t].eng])
                => ~LoadAttempt(t) ]_vars

(***************************************************************************)
(* C6: when the first-use load of an engine failed at any step, every      *)
(* scoring call on it runs all adapters in fallback mode and the engine    *)
(* holds no learned model.                                                 *)
(***************************************************************************)
C6_FailedLoadMeansAllFallback ==
    \A t \in Threads :
        (thr[t].pc = "scored" /\ obs.load_failed[thr[t].eng])
            => /\ thr[t].used = {}
               /\ ~engines[thr[t].eng].xgb_model
               /\ ~engines[thr[t].eng].rf_model
               /\ ~engines[thr[t].eng].isolation_model
               /\ ~engines[thr[t].eng].nlp_pipeline

(***************************************************************************)
(* SpecRetry: one dispatch of each scoring task.  rt[t] is the task's      *)
(* Celery request: retries is request.retries, attempts counts the runs    *)
(* of the task body and delays lists the countdown of every retry sent.    *)
(***************************************************************************)
InitRetry ==
    /\ rt = [t \in Tasks |-> [state |-> "queued", retries |-> 0,
                              attempts |-> 0, delays |-> <<>>]]
    /\ DecisionParked /\ FlowParked /\ EngineParked /\ PureParked

NotRetry == <<decisionVars, flowVars, engineVars, pureVars>>

\* The worker takes the message and runs the task body.
TaskRun(t) ==
    /\ rt[t].state = "queued"
    /\ rt' = [rt EXCEPT ![t].state = "running", ![t].attempts = @ + 1]
    /\ UNCHANGED NotRetry

TaskSucceed(t) ==
    /\ rt[t].state = "running"
    /\ rt' = [rt EXCEPT ![t].state = "succeeded"]
    /\ UNCHANGED NotRetry

\* The task body raised: the except branch ends in
\* raise self.retry(exc=exc).
TaskRetry(t) ==
    /\ rt[t].state = "running"
    /\ rt' = IF may_retry(t, rt[t].retries)
             THEN [rt EXCEPT
                      ![t].state = "queued",
                      ![t].delays =
                          Append(@, retry_countdown(t, rt[t].retries)),
                      ![t].retries = @ + 1]
             ELSE [rt EXCEPT ![t].state = "failed"]
    /\ UNCHANGED NotRetry

NextRetry ==
    \E t \in Tasks : TaskRun(t) \/ TaskSucceed(t) \/ TaskRetry(t)

SpecRetry == InitRetry /\ [][NextRetry]_vars

(***************************************************************************)
(* C10: for one dispatch each scoring task runs at most 1 + max_retries    *)
(* times, and the delay before each retry is strictly larger than the      *)
(* delay before the previous retry.                                        *)
(***************************************************************************)
C10_BoundedRetriesWithBackoff ==
    \A t \in Tasks :
        /\ rt[t].attempts <= 1 + max_retries(t)
        /\ \A i \in 2..Len(rt[t].delays) :
               rt[t].delays[i] > rt[t].delays[i - 1]

(***************************************************************************)
(* SpecScore: the five adapters and the trust score of one analyze call.   *)
(* Model scores are integers in hundredths (0.37 = 37), the trust score in *)
(* hundredths of a point.  Each adapter either runs its learned model,     *)
(* whose raw output is an input here, or its fallback rule.                *)
(***************************************************************************)
WEIGHTS ==
    [xgboost |-> 30, rf |-> 25, isolation |-> 20, autoencoder |-> 15,
     nlp |-> 10]

FeatureCount == 20   \* entries of the vector _extract_feature_vector builds

clip(x, lo, hi) == IF x < lo THEN lo ELSE IF x > hi THEN hi ELSE x

\* The features the fallback rules read; ratios in hundredths.
ScoreFeatures ==
    [amount_vs_org_avg : {100, 250, 350, 615},
     duplicate_claim_flag : {0, 1},
     rapid_readmission : {0, 1},
     missing_required_fields : {0, 3},
     amount_vs_procedure_avg : {100, 350},
     length_of_stay : {5, 40}]

rule_based_fraud_score(f) ==
    clip((IF f.amount_vs_org_avg > 300 THEN 30 ELSE 0)
         + (IF f.duplicate_claim_flag = 1 THEN 40 ELSE 0)
         + (IF f.rapid_readmission = 1 THEN 20 ELSE 0), 0, 100)

rule_based_approval_score_no_amount_penalty(f) ==
    clip(70 - (IF f.missing_required_fields > 2 THEN 30 ELSE 0), 0, 100)

rule_based_approval_score(f) ==
    clip(70 - (IF f.missing_required_fields > 2 THEN 30 ELSE 0)
            - (IF f.amount_vs_org_avg > 200 THEN 20 ELSE 0), 0, 100)

rule_based_anomaly_score(f) ==
    clip((IF f.amount_vs_procedure_avg > 300 THEN 40 ELSE 0)
         + (IF f.length_of_stay > 30 THEN 20 ELSE 0), 0, 100)

\* What an adapter is given: whether a learned model answers, and its raw
\* output.  predict_proba answers a probability; decision_function a raw
\* margin; the autoencoder a reconstruction error (250 = 2.5); the NLP
\* pipeline the number of DATE entities it finds in text[:5000], while
\* dates is the number of distinct date mentions of the whole text.
ProbaInputs ==
    {[learned |-> FALSE, raw |-> 0]} \cup [learned : {TRUE}, raw : {0, 37, 100}]

MarginInputs ==
    {[learned |-> FALSE, raw |-> 0]}
        \cup [learned : {TRUE}, raw : {-1000, 0, 1000}]

\* outliers: the entries of the vector more than two standard deviations
\* from its mean, which the fallback of _run_autoencoder counts
AutoencoderInputs ==
    [learned : {FALSE}, raw : {0}, outliers : {0, 1, 4}]
        \cup [learned : {TRUE}, raw : {0, 50, 250}, outliers : {0}]

NlpInputs ==
    {[text |-> FALSE, learned |-> FALSE, raw |-> 0, dates |-> 0],
     [text |-> TRUE, learned |-> FALSE, raw |-> 0, dates |-> 2],
     [text |-> TRUE, learned |-> FALSE, raw |-> 0, dates |-> 6],
     [text |-> TRUE, learned |-> TRUE, raw |-> 2, dates |-> 2],
     [text |-> TRUE, learned |-> TRUE, raw |-> 6, dates |-> 6],
     [text |-> TRUE, learned |-> TRUE, raw |-> 2, dates |-> 6]}

run_xgboost(inp, f) ==
    IF inp.learned THEN inp.raw ELSE rule_based_fraud_score(f)

run_random_forest(inp, f) ==
    IF inp.learned THEN inp.raw ELSE rule_based_approval_score(f)

\* 1 / (1 + exp(raw * 5)), on the margins of MarginInputs
run_isolation_forest(inp, f) ==
    IF inp.learned
    THEN (IF inp.raw < 0 THEN 100 ELSE IF inp.raw = 0 THEN 50 ELSE 0)
    ELSE rule_based_anomaly_score(f)

run_autoencoder_unbounded(inp) ==
    IF inp.learned THEN inp.raw
    ELSE clip((inp.outliers * 100) \div FeatureCount, 0, 100)

run_autoencoder(inp) ==
    IF inp.learned
    THEN (IF inp.raw < 100 THEN inp.raw ELSE 100)
    ELSE clip((inp.outliers * 100) \div FeatureCount, 0, 100)

run_nlp(inp) ==
    IF ~inp.text THEN 0
    ELSE clip(IF inp.learned /\ inp.raw > 5 THEN 10 ELSE 0, 0, 100)

compute_trust_score_nlp_not_inverted(xgb, rf, iso, ae, nlp) ==
    clip(WEIGHTS.xgboost * (100 - xgb) + WEIGHTS.rf * rf
         + WEIGHTS.isolation * (100 - iso)
         + WEIGHTS.autoencoder * (100 - ae)
         + WEIGHTS.nlp * nlp, 0, 10000)

compute_trust_score(xgb, rf, iso, ae, nlp) ==
    clip(WEIGHTS.xgboost * (100 - xgb) + WEIGHTS.rf * rf
         + WEIGHTS.isolation * (100 - iso)
         + WEIGHTS.autoencoder * (100 - ae)
         + WEIGHTS.nlp * (100 - nlp), 0, 10000)

NoScores == [xgb |-> 0, rf |-> 0, iso |-> 0, ae |-> 0, nlp |-> 0]

NotScore == <<decisionVars, flowVars, engineVars, retryVars, fb>>

InitScore ==
    /\ sc \in [pc : {"input"}, features : ScoreFeatures,
               xgb : ProbaInputs, rf : ProbaInputs, iso : MarginInputs,
               ae : AutoencoderInputs, nlp : NlpInputs,
               scores : {NoScores}, trust_score : {0}]
    /\ fb = None
    /\ DecisionParked /\ FlowParked /\ EngineParked /\ RetryParked

\* analyze, lines 378-386
AnalyzeScores ==
    /\ sc.pc = "input"
    /\ LET xgb_score == run_xgboost(sc.xgb, sc.features)
           rf_score  == run_random_forest(sc.rf, sc.features)
           iso_score == run_isolation_forest(sc.iso, sc.features)
           ae_score  == run_autoencoder(sc.ae)
           nlp_score == run_nlp(sc.nlp)
       IN sc' = [sc EXCEPT
                    !.pc = "scored",
                    !.scores = [xgb |-> xgb_score, rf |-> rf_score,
                                iso |-> iso_score, ae |-> ae_score,
                                nlp |-> nlp_score],
                    !.trust_score =
                        compute_trust_score(xgb_score, rf_score, iso_score,
                                            ae_score, nlp_score)]
    /\ UNCHANGED NotScore

NextScore == AnalyzeScores

SpecScore == InitScore /\ [][NextScore]_vars

(***************************************************************************)
(* C14: whichever adapters run a learned model or their fallback rule,     *)
(* each of the five component scores is in [0,1] and the trust score is    *)
(* in [0,100].                                                             *)
(***************************************************************************)
C14_ScoresInRange ==
    sc.pc = "scored" =>
        /\ \A k \in {"xgb", "rf", "iso", "ae", "nlp"} :
               sc.scores[k] >= 0 /\ sc.scores[k] <= 100
        /\ sc.trust_score >= 0 /\ sc.trust_score <= 10000

C14_Witness ==
    /\ sc.pc = "scored"
    /\ sc.xgb.learned /\ ~sc.rf.learned
    /\ sc.ae.learned /\ sc.ae.raw = 250 /\ sc.scores.ae = 100
    /\ sc.scores.rf = 20
    /\ sc.scores.xgb = 100 /\ sc.scores.iso = 100 /\ sc.scores.nlp = 10
    /\ sc.trust_score = 1400

\* every adapter answers with its rule-based fallback
AllFallback ==
    /\ ~sc.xgb.learned /\ ~sc.rf.learned /\ ~sc.iso.learned
    /\ ~sc.ae.learned /\ ~sc.nlp.learned

\* 18,450 against an organization average of 3,000, duplicate and rapid
\* readmission flags set
AmountScenario ==
    /\ sc.pc = "scored"
    /\ AllFallback
    /\ sc.features.amount_vs_org_avg = 615
    /\ sc.features.duplicate_claim_flag = 1
    /\ sc.features.rapid_readmission = 1

(***************************************************************************)
(* C21, as stated: with every adapter in fallback, ratio 6.15 and both     *)
(* flags set, the recommendation is HIGH_RISK_HOLD or                      *)
(* COMPLIANCE_REVIEW_REQUIRED for every value of the other signals.        *)
(***************************************************************************)
C21_ScenarioNeverApproves ==
    AmountScenario =>
        determine_recommendation(sc.trust_score)
            \in {"HIGH_RISK_HOLD", "COMPLIANCE_REVIEW_REQUIRED"}

(***************************************************************************)
(* C21, amended: in that scenario the fraud score is 0.9, the trust score  *)
(* is at most 60.5 and the recommendation is never AUTO_APPROVE; it is     *)
(* APPROVE_WITH_REVIEW only when the approval score is 0.5 and the         *)
(* anomaly, deep-anomaly and inconsistency scores are all 0, and is        *)
(* HIGH_RISK_HOLD or COMPLIANCE_REVIEW_REQUIRED otherwise.                 *)
(***************************************************************************)
C21_ScenarioAtMostReview ==
    AmountScenario =>
        /\ sc.scores.xgb = 90
        /\ sc.trust_score <= 6050
        /\ determine_recommendation(sc.trust_score) # "AUTO_APPROVE"
        /\ determine_recommendation(sc.trust_score) = "APPROVE_WITH_REVIEW"
               <=> /\ sc.scores.rf = 50 /\ sc.scores.iso = 0
                   /\ sc.scores.ae = 0 /\ sc.scores.nlp = 0

C21_Witness ==
    /\ AmountScenario
    /\ sc.features.missing_required_fields = 0
    /\ sc.scores.rf = 50 /\ sc.scores.iso = 0 /\ sc.scores.ae = 0
    /\ sc.trust_score = 6050
    /\ determine_recommendation(sc.trust_score) = "APPROVE_WITH_REVIEW"

(***************************************************************************)
(* C22: for a non-empty text the inconsistency score is 0.1 when the text  *)
(* holds six or more distinct date mentions and 0 when it holds five or    *)
(* fewer.                                                                  *)
(***************************************************************************)
C22_DateMentionsDecideScore ==
    (sc.pc = "scored" /\ sc.nlp.text) =>
        /\ sc.nlp.dates >= 6 => sc.scores.nlp = 10
        /\ sc.nlp.dates <= 5 => sc.scores.nlp = 0

(***************************************************************************)
(* SpecEnsemble: the trust score on two score sets that differ in one      *)
(* model score, and the confidence on two sets of four model scores.       *)
(***************************************************************************)
Components == {"xgb", "rf", "iso", "ae", "nlp"}

TrustGrid == {0, 25, 50, 75, 100}

ConfidenceGrid == {0, 30, 50, 100}

trust_of(a) == compute_trust_score(a.xgb, a.rf, a.iso, a.ae, a.nlp)

\* np.var of four scores times 16, in hundredths squared:
\* 16 * (sum(x^2)/4 - (sum(x)/4)^2)
variance16(x) ==
    4 * (x[1] * x[1] + x[2] * x[2] + x[3] * x[3] + x[4] * x[4])
    - (x[1] + x[2] + x[3] + x[4]) * (x[1] + x[2] + x[3] + x[4])

\* round(n / d) to the nearest integer, ties to even, as Python's round
round_div(n, d) ==
    LET q == n \div d
        r == n % d
    IN  IF 2 * r < d THEN q
        ELSE IF 2 * r > d THEN q + 1
        ELSE IF q % 2 = 0 THEN q ELSE q + 1

compute_confidence_uncapped(x) ==
    round_div(40000 - variance16(x), 40)

\* round(clip(1 - min(variance * 4, 0.9), 0.1, 1.0), 3), in thousandths;
\* the clip is taken in units of 1/40000
compute_confidence(x) ==
    LET v == variance16(x)
        m == IF v < 36000 THEN v ELSE 36000
    IN  round_div(clip(40000 - m, 4000, 40000), 40)

NotEnsemble == <<decisionVars, flowVars, engineVars, retryVars, fb>>

InitEnsemble ==
    /\ \/ sc \in [pc : {"trust_input"},
                  a : [Components -> TrustGrid]]
       \/ sc \in [pc : {"confidence_input"},
                  x : [1..4 -> ConfidenceGrid]]
    /\ fb = None
    /\ DecisionParked /\ FlowParked /\ EngineParked /\ RetryParked

\* one model score is raised, the other four are held
RaiseOneScore ==
    /\ sc.pc = "trust_input"
    /\ \E k \in Components, v \in TrustGrid :
          /\ v > sc.a[k]
          /\ sc' = [pc |-> "raised", a |-> sc.a, k |-> k,
                    b |-> [sc.a EXCEPT ![k] = v],
                    trust_a |-> trust_of(sc.a),
                    trust_b |-> trust_of([sc.a EXCEPT ![k] = v])]
    /\ UNCHANGED NotEnsemble

\* the confidence of a second set of four scores
CompareConfidence ==
    /\ sc.pc = "confidence_input"
    /\ \E y \in [1..4 -> ConfidenceGrid] :
          sc' = [pc |-> "compared", x |-> sc.x, y |-> y,
                 confidence_x |-> compute_confidence(sc.x),
                 confidence_y |-> compute_confidence(y)]
    /\ UNCHANGED NotEnsemble

NextEnsemble == RaiseOneScore \/ CompareConfidence

SpecEnsemble == InitEnsemble /\ [][NextEnsemble]_vars

(***************************************************************************)
(* C15: the five weights sum to 1, and the trust score is monotone in      *)
(* each model score with the other four fixed: raising the fraud, the      *)
(* statistical-anomaly, the deep-anomaly or the document-inconsistency     *)
(* score never raises trust; raising the approval score never lowers it.   *)
(***************************************************************************)
C15_WeightsAndMonotonicity ==
    /\ WEIGHTS.xgboost + WEIGHTS.rf + WEIGHTS.isolation
           + WEIGHTS.autoencoder + WEIGHTS.nlp = 100
    /\ sc.pc = "raised" =>
           IF sc.k = "rf" THEN sc.trust_b >= sc.trust_a
           ELSE sc.trust_b <= sc.trust_a

C15_Witness ==
    /\ sc.pc = "raised" /\ sc.k = "nlp"
    /\ sc.a.nlp = 0 /\ sc.b.nlp = 100
    /\ sc.trust_a = 10000 /\ sc.trust_b = 9000

(***************************************************************************)
(* C16: the confidence of four model scores in [0,1] lies in [0.1, 1.0],   *)
(* and of two score sets the one with the larger variance has the smaller  *)
(* or equal confidence.                                                    *)
(***************************************************************************)
C16_ConfidenceRangeAndOrder ==
    sc.pc = "compared" =>
        /\ sc.confidence_x >= 100 /\ sc.confidence_x <= 1000
        /\ sc.confidence_y >= 100 /\ sc.confidence_y <= 1000
        /\ variance16(sc.x) > variance16(sc.y)
               => sc.confidence_x <= sc.confidence_y

C16_Witness ==
    /\ sc.pc = "compared"
    /\ sc.x = <<0, 0, 100, 100>> /\ sc.confidence_x = 100
    /\ sc.y = <<30, 50, 50, 30>> /\ sc.confidence_y = 960

(***************************************************************************)
(* SpecRisk: the risk-factor list of one analyze call.                     *)
(***************************************************************************)
RiskFeatures ==
    [duplicate_claim_flag : {0, 1},
     rapid_readmission : {0, 1},
     amount_vs_org_avg : {100, 300},          \* hundredths
     missing_required_fields : {0, 2},
     org_historical_fraud_rate : {5, 15},     \* hundredths
     org_trust_score : {50, 90},
     ocr_completeness_score : {750, 1000}]    \* thousandths

RiskScores == {50, 80}

Factor(severity, factor, impact) ==
    [severity |-> severity, factor |-> factor, impact |-> impact]

\* the appends of _build_risk_factors, in the order of the code
risk_appends(f, xgb, iso) ==
    (IF f.duplicate_claim_flag # 0
     THEN <<Factor("high", "duplicate_claim", -25)>> ELSE <<>>)
    \o (IF f.rapid_readmission # 0
        THEN <<Factor("medium", "rapid_readmission", -15)>> ELSE <<>>)
    \o (IF f.amount_vs_org_avg > 250
        THEN <<Factor("medium", "amount_above_org_average", -10)>>
        ELSE <<>>)
    \o (IF f.missing_required_fields > 0
        THEN <<Factor("medium", "fields_missing", -8)>> ELSE <<>>)
    \o (IF f.org_historical_fraud_rate > 10
        THEN <<Factor("high", "org_fraud_rate", -20)>> ELSE <<>>)
    \o (IF xgb > 70
        THEN <<Factor("high", "xgboost_high_fraud", -30)>> ELSE <<>>)
    \o (IF iso > 65
        THEN <<Factor("medium", "statistical_anomaly", -12)>> ELSE <<>>)
    \o (IF f.org_trust_score > 80
        THEN <<Factor("info", "high_trust_org", 15)>> ELSE <<>>)
    \o (IF f.ocr_completeness_score > 950
        THEN <<Factor("info", "documents_complete", 5)>> ELSE <<>>)

\* r goes after every element whose impact is not larger (stable)
RECURSIVE insert_by_impact(_, _)
insert_by_impact(sorted, r) ==
    IF sorted = <<>> THEN <<r>>
    ELSE IF Head(sorted).impact <= r.impact
         THEN <<Head(sorted)>> \o insert_by_impact(Tail(sorted), r)
         ELSE <<r>> \o sorted

\* sorted(risks, key=lambda r: r["impact"])
RECURSIVE sorted_by_impact(_)
sorted_by_impact(risks) ==
    IF risks = <<>> THEN <<>>
    ELSE insert_by_impact(
             sorted_by_impact(SubSeq(risks, 1, Len(risks) - 1)),
             risks[Len(risks)])

build_risk_factors_unsorted(f, xgb, iso) == risk_appends(f, xgb, iso)

build_risk_factors(f, xgb, iso) ==
    sorted_by_impact(risk_appends(f, xgb, iso))

NotRisk == <<decisionVars, flowVars, engineVars, retryVars, fb>>

InitRisk ==
    /\ sc \in [pc : {"input"}, features : RiskFeatures,
               xgb : RiskScores, iso : RiskScores,
               risk_factors : {<<>>}]
    /\ fb = None
    /\ DecisionParked /\ FlowParked /\ EngineParked /\ RetryParked

\* analyze, line 388
BuildRiskFactors ==
    /\ sc.pc = "input"
    /\ sc' = [sc EXCEPT
                 !.pc = "built",
                 !.risk_factors =
                     build_risk_factors(sc.features, sc.xgb, sc.iso)]
    /\ UNCHANGED NotRisk

NextRisk == BuildRiskFactors

SpecRisk == InitRisk /\ [][NextRisk]_vars

(***************************************************************************)
(* C17: the risk-factor list is sorted by non-decreasing impact, so every  *)
(* negative-impact factor precedes every positive-impact factor.           *)
(***************************************************************************)
C17_RiskFactorsSorted ==
    sc.pc = "built" =>
        /\ \A i \in 1..Len(sc.risk_factors) - 1 :
               sc.risk_factors[i].impact <= sc.risk_factors[i + 1].impact
        /\ \A i, j \in 1..Len(sc.risk_factors) :
               (sc.risk_factors[i].impact < 0
                    /\ sc.risk_factors[j].impact > 0) => i < j
        /\ Len(sc.risk_factors)
               = Len(risk_appends(sc.features, sc.xgb, sc.iso))

C17_Witness ==
    /\ sc.pc = "built"
    /\ Len(sc.risk_factors) = 9
    /\ sc.risk_factors[1].factor = "xgboost_high_fraud"
    /\ sc.risk_factors[3].factor = "org_fraud_rate"
    /\ sc.risk_factors[8].factor = "documents_complete"
    /\ sc.risk_factors[9].factor = "high_trust_org"

(***************************************************************************)
(* SpecFeatures: FeatureEngineer.build_features called twice with the same *)
(* claim record and OCR data, on a store whose contents do not change.     *)
(* Time is counted in days; fb.now is the day datetime.utcnow() falls on.  *)
(* A nullable input holds {} or {value}.                                   *)
(***************************************************************************)
MaxDays == 2    \* days the clock may advance

\* dates of birth read by OCR: none, one whose 40th birthday is day 1,
\* one in mid-year
OcrDobs == {{}, {1 - 40 * 365}, {-200 - 40 * 365}}

\* claim["patient_metadata"]["age"], {} when absent
MetadataAges == {{}, {52}}

\* created_at of the organization's other claim of the same patient
OtherClaimDays == {-90, -30, -5}

\* other_shares_procedure: that other claim and this one have a procedure
\* code in common
FeatureInputs ==
    [dob : OcrDobs, metadata_age : MetadataAges,
     other_created_at : OtherClaimDays,
     other_shares_procedure : BOOLEAN,
     ocr_fields_present : {2, 4}]

\* lines 167-176
patient_age(inp, now) ==
    LET from_dob == IF inp.dob = {} THEN 0
                    ELSE (now - (CHOOSE d \in inp.dob : TRUE)) \div 365
    IN  IF from_dob = 0 /\ inp.metadata_age # {}
        THEN CHOOSE a \in inp.metadata_age : TRUE
        ELSE from_dob

\* _get_org_stats: the claims created in the last 30 days
org_claim_volume_30d(inp, now) ==
    IF inp.other_created_at >= now - 30 THEN 1 ELSE 0

\* _check_duplicate: a claim of the patient created in the last 90 days;
\* the query filters on patient_id, id and created_at only
check_duplicate(inp, now) == inp.other_created_at >= now - 90

build_features(inp, now) ==
    [patient_age |-> patient_age(inp, now),
     org_claim_volume_30d |-> org_claim_volume_30d(inp, now),
     duplicate_claim_flag |-> IF check_duplicate(inp, now) THEN 1 ELSE 0,
     ocr_completeness_score |-> (inp.ocr_fields_present * 1000) \div 4,
     missing_required_fields |-> 4 - inp.ocr_fields_present,
     unusual_provider_combo |-> 0]

NoFeatures ==
    [patient_age |-> 0, org_claim_volume_30d |-> 0,
     duplicate_claim_flag |-> 0, ocr_completeness_score |-> 0,
     missing_required_fields |-> 0, unusual_provider_combo |-> 0]

NotFeatures == <<decisionVars, flowVars, engineVars, retryVars, sc>>

InitFeatures ==
    /\ fb \in [pc : {"start"}, now : {0}, inp : FeatureInputs,
               first : {NoFeatures}, second : {NoFeatures}]
    /\ sc = None
    /\ DecisionParked /\ FlowParked /\ EngineParked /\ RetryParked

\* the clock advances between or before the calls
Tick ==
    /\ fb.now < MaxDays
    /\ fb.pc # "second_done"
    /\ fb' = [fb EXCEPT !.now = @ + 1]
    /\ UNCHANGED NotFeatures

BuildFirst ==
    /\ fb.pc = "start"
    /\ fb' = [fb EXCEPT !.pc = "first_done",
                        !.first = build_features(fb.inp, fb.now)]
    /\ UNCHANGED NotFeatures

BuildSecond ==
    /\ fb.pc = "first_done"
    /\ fb' = [fb EXCEPT !.pc = "second_done",
                        !.second = build_features(fb.inp, fb.now)]
    /\ UNCHANGED NotFeatures

NextFeatures == Tick \/ BuildFirst \/ BuildSecond

SpecFeatures == InitFeatures /\ [][NextFeatures]_vars

(***************************************************************************)
(* C19: two build_features calls with the same claim record and OCR data   *)
(* on an unchanged store return equal features, whenever the calls are     *)
(* made.                                                                   *)
(***************************************************************************)
C19_BuildFeaturesDeterministic ==
    fb.pc = "second_done" => fb.first = fb.second

(***************************************************************************)
(* C25: the duplicate-claim flag is set exactly when the store holds       *)
(* another claim of the same patient, created within the trailing 90       *)
(* days, whose procedure codes overlap those of this claim.                *)
(***************************************************************************)
C25_DuplicateNeedsOverlap ==
    fb.pc = "second_done" =>
        (fb.second.duplicate_claim_flag = 1
            <=> /\ fb.inp.other_created_at >= fb.now - 90
                /\ fb.inp.other_shares_procedure)

(***************************************************************************)
(* SpecPartial: FeatureEngineer.build_features on a claim record whose     *)
(* optional data is absent, null or malformed, with the store answering    *)
(* or failing.  A column is "absent" when the dictionary has no such key   *)
(* and "null" when the key holds None.                                     *)
(***************************************************************************)
ClaimRecords ==
    [hospital_org_id : {"present", "absent", "null"},
     claimed_amount : {"number", "absent", "null", "malformed"},
     procedure_codes : {"list", "absent", "null", "empty_code"},
     diagnosis_codes : {"list", "absent", "null"},
     patient_metadata : {"age", "absent", "null", "malformed_age"},
     dates : {"iso", "absent", "malformed"},
     ocr_dob : BOOLEAN,          \* OCR read a date of birth giving an age
     store_fails : BOOLEAN]      \* every lookup of the store raises

\* the first exception build_features lets escape, in the order of
\* evaluation of lines 150-200, or None
build_features_raises(c) ==
    IF c.hospital_org_id = "absent" THEN "KeyError"            \* line 150
    ELSE IF c.claimed_amount = "null" THEN "TypeError"         \* line 151
    ELSE IF c.claimed_amount = "malformed" THEN "ValueError"   \* line 151
    ELSE IF ~c.ocr_dob /\ c.patient_metadata = "null"
         THEN "AttributeError"                                 \* line 175
    ELSE IF ~c.ocr_dob /\ c.patient_metadata = "malformed_age"
         THEN "ValueError"                                     \* line 176
    ELSE IF c.procedure_codes = "null" THEN "TypeError"        \* line 181
    ELSE IF c.diagnosis_codes = "null" THEN "TypeError"        \* line 182
    ELSE IF c.procedure_codes = "empty_code" THEN "IndexError" \* line 190
    ELSE None

\* _compute_length_of_stay: a 3-day stay, or 0 when a date does not parse
compute_length_of_stay(c) == IF c.dates = "iso" THEN 3 ELSE 0

\* _get_org_stats: the organization's trust score, or the default 50.0
get_org_stats(c) ==
    IF c.store_fails \/ c.hospital_org_id # "present" THEN 5000 ELSE 7200

NoResult == [raised |-> None, fields |-> 0, length_of_stay |-> 0,
             org_trust_score |-> 0]

\* the outcome of the call: the exception raised, or a ClaimFeatures
build_features_result(c) ==
    IF build_features_raises(c) # None
    THEN [NoResult EXCEPT !.raised = build_features_raises(c)]
    ELSE [raised |-> None, fields |-> FeatureCount,
          length_of_stay |-> compute_length_of_stay(c),
          org_trust_score |-> get_org_stats(c)]

InitPartial ==
    /\ fb \in [pc : {"start"}, claim : ClaimRecords, result : {NoResult}]
    /\ sc = None
    /\ DecisionParked /\ FlowParked /\ EngineParked /\ RetryParked

BuildPartial ==
    /\ fb.pc = "start"
    /\ fb' = [fb EXCEPT !.pc = "built",
                        !.result = build_features_result(fb.claim)]
    /\ UNCHANGED NotFeatures

NextPartial == BuildPartial

SpecPartial == InitPartial /\ [][NextPartial]_vars

(***************************************************************************)
(* C24: build_features raises no exception, whatever optional data of the  *)
(* claim record is absent, null or malformed and whichever lookups fail,   *)
(* and returns all 20 fields.                                              *)
(***************************************************************************)
C24_BuildFeaturesNeverAborts ==
    fb.pc = "built" =>
        /\ fb.result.raised = None
        /\ fb.result.fields = FeatureCount

====
